---- MODULE Spec2Model ----
(***************************************************************************)
(* Vocabulary-based book recommendation engine (guten-vocab).              *)
(*                                                                         *)
(* The module models                                                       *)
(*   - the scoring function calculate_match_score (a pure function),       *)
(*   - the vocabulary profile builder and the mastery statistics,          *)
(*   - the batch recommendation engine (phases 1-4) writing the            *)
(*     StudentRecommendation and ClassRecommendation tables,               *)
(*   - the read paths of the API services over those tables.               *)
(*                                                                         *)
(* Numbers.  The code computes with Python floats; the model computes the  *)
(* same expressions exactly, in fixed point:                               *)
(*   known_percent       integer number of 1/PUnit                         *)
(*   sub-scores          integer number of 1/SubOne                        *)
(*   match_score         integer number of 1/ScoreOne                      *)
(*   reading levels      tenths of a grade (7.0 is 70)                     *)
(* Tables.  A recommendation table is the bag of its rows without the     *)
(* columns id and created_at, which nothing reads.                        *)
(***************************************************************************)
EXTENDS Integers, Sequences, FiniteSets, Bags, TLC

(***************************************************************************)
(* Bounds of the model.                                                    *)
(***************************************************************************)
NumStudents == 2        \* students 1..NumStudents
NumBooks == 4           \* books 1..NumBooks
NumWords == 3           \* vocabulary words 1..NumWords
MaxSeed == 1            \* per-process hash salts 0..MaxSeed
MaxRuns == 2            \* engine runs per behaviour
MaxChanges == 1         \* data changes (ingestions, book re-seeds) per behaviour
MaxNewWords == 41       \* new_words_count inputs 0..MaxNewWords of the scorer
Slack == 6              \* known_percent inputs reach Slack/PUnit outside [0,1]

Students == 1..NumStudents
Books == 1..NumBooks
Words == 1..NumWords
HashSeeds == 0..MaxSeed

(***************************************************************************)
(* Arithmetic helpers.                                                     *)
(***************************************************************************)
Abs(x) == IF x < 0 THEN 0 - x ELSE x

Max(a, b) == IF a >= b THEN a ELSE b

Min(a, b) == IF a <= b THEN a ELSE b

RECURSIVE GCD(_, _)
GCD(a, b) == IF b = 0 THEN a ELSE GCD(b, a % b)

LCM(a, b) == (a * b) \div GCD(a, b)

RECURSIVE LCMUpTo(_)
LCMUpTo(n) == IF n <= 1 THEN 1 ELSE LCM(n, LCMUpTo(n - 1))

\* Unit of known_percent: every k/total with total <= NumWords and the
\* breakpoints 0.40, 0.50, 0.625, 0.75, 0.85 are whole numbers of 1/PUnit.
PUnit == LCM(40, LCMUpTo(NumWords))

SubOne == 10000 * PUnit      \* 1.0 as a sub-score

ScoreOne == 10 * SubOne      \* 1.0 as a match score

P40 == (2 * PUnit) \div 5    \* 0.40

P50 == PUnit \div 2          \* 0.50

P625 == (5 * PUnit) \div 8   \* 0.625

P75 == (3 * PUnit) \div 4    \* 0.75

P85 == (17 * PUnit) \div 20  \* 0.85

\* book.reading_level is nullable: None
NoLevel == -1

(***************************************************************************)
(* calculate_match_score (scripts/generate_recommendations.py)             *)
(***************************************************************************)
\* known_percent = max(0.0, min(1.0, known_percent))
clamp_known_percent(known_percent) == Max(0, Min(PUnit, known_percent))

\* a penalty that rewards the extremes
penalty_wrong_sign(kp) ==
    IF kp > P85 THEN (P85 - kp) * 3
    ELSE IF kp < P40 THEN (kp - P40) * 3
    ELSE 0

\* penalty, in 1/PUnit (the clamped known_percent is the argument)
penalty(kp) ==
    IF kp > P85 THEN (kp - P85) * 3
    ELSE IF kp < P40 THEN (P40 - kp) * 3
    ELSE 0

\* a known_score that stays at 1.0 above 0.75
known_score_flat_above(kp) ==
    IF P50 <= kp /\ kp <= P75
    THEN SubOne - Abs(kp - P625) * 12000
    ELSE IF kp < P50
    THEN 7000 * PUnit + (kp - P40) * 15000
    ELSE SubOne

\* known_score, in 1/SubOne
known_score(kp) ==
    IF P50 <= kp /\ kp <= P75
    THEN SubOne - Abs(kp - P625) * 12000      \* 1.0 - (distance / 0.125) * 0.15
    ELSE IF kp < P50
    THEN 7000 * PUnit + (kp - P40) * 15000    \* 0.7 + (kp - 0.40) / 0.10 * 0.15
    ELSE SubOne - (kp - P75) * 20000          \* 1.0 - ((kp - 0.75) / 0.10) * 0.2

\* a new_words_score that is already 1.0 at 20 new words
new_words_score_saturating_at_20(new_words_count) ==
    IF new_words_count >= 20 THEN SubOne
    ELSE IF new_words_count >= 10 THEN (7000 + (new_words_count - 10) * 150) * PUnit
    ELSE IF new_words_count >= 5 THEN (4000 + (new_words_count - 5) * 600) * PUnit
    ELSE new_words_count * 800 * PUnit

\* new_words_score, in 1/SubOne
new_words_score(new_words_count) ==
    IF new_words_count >= 40 THEN SubOne
    ELSE IF new_words_count >= 20 THEN (8500 + (new_words_count - 20) * 75) * PUnit
    ELSE IF new_words_count >= 10 THEN (7000 + (new_words_count - 10) * 150) * PUnit
    ELSE IF new_words_count >= 5 THEN (4000 + (new_words_count - 5) * 600) * PUnit
    ELSE new_words_count * 800 * PUnit

\* level_diff without abs()
reading_level_score_signed(book_reading_level, student_reading_level) ==
    IF book_reading_level # NoLevel
    THEN Max(0, SubOne - (book_reading_level - student_reading_level) * 500 * PUnit)
    ELSE SubOne \div 2

\* reading_level_score, in 1/SubOne; levels in tenths of a grade
reading_level_score(book_reading_level, student_reading_level) ==
    IF book_reading_level # NoLevel
    THEN Max(0, SubOne - Abs(book_reading_level - student_reading_level) * 500 * PUnit)
    ELSE SubOne \div 2

\* the weighted sum before the final clamp, in 1/ScoreOne
raw_match_score(known_percent, new_words_count, book_reading_level, student_reading_level) ==
    LET kp == clamp_known_percent(known_percent)
    IN  known_score(kp) * 4
        + new_words_score(new_words_count) * 4
        + reading_level_score(book_reading_level, student_reading_level) * 2
        - penalty(kp) * 100000

\* the weighted sum returned as it is
calculate_match_score_unclamped(known_percent, new_words_count, book_reading_level, student_reading_level) ==
    raw_match_score(known_percent, new_words_count, book_reading_level, student_reading_level)

\* match_score = max(0.0, min(1.0, match_score))
calculate_match_score(known_percent, new_words_count, book_reading_level, student_reading_level) ==
    Max(0, Min(ScoreOne,
        raw_match_score(known_percent, new_words_count,
                        book_reading_level, student_reading_level)))

(***************************************************************************)
(* State.                                                                  *)
(***************************************************************************)
VARIABLES
    args,                     \* scorer harness: the four arguments of a call
    result,                   \* scorer harness: the returned match score
    response,                 \* API: the response sent in the last step, if any
    vocabulary_words,         \* table vocabulary_words: word_id -> grade_level
    student_vocabulary,       \* table student_vocabulary, keyed (student_id, word_id)
    book_vocabulary,          \* table book_vocabulary: book_id -> word ids of the book
    student_recommendations,  \* table student_recommendations
    class_recommendations,    \* table class_recommendations
    pc,                       \* position of the engine process
    hash_seed,                \* str-hash salt of the engine process
    api_hash_seed,            \* str-hash salt of the API server process
    matches,                  \* engine: result["matches"], student_id -> top_3
    pending,                  \* engine: students the store loop has not reached yet
    top_2,                    \* engine: class_result["top_2_books"]
    runs,                     \* engine runs started
    changes,                  \* data changes made
    store_errors,             \* engine: students whose commit was reported as failed
    clock,                    \* datetime.now(), in ticks
    store_result,             \* engine: total_inserted and total_updated of phase 2
    committed,                \* engine: rows of the run that a commit made durable
    sessions                  \* engine processes that run side by side, each with its
                              \* own database session

vars == <<args, result, response, vocabulary_words, student_vocabulary, book_vocabulary,
          student_recommendations, class_recommendations, pc, hash_seed,
          api_hash_seed, matches, pending, top_2, runs, changes, store_errors,
          clock, store_result, committed, sessions>>

(***************************************************************************)
(* Reference data: students, vocabulary_words, books.  The engine and the  *)
(* services only read these tables.                                        *)
(***************************************************************************)
\* Student.actual_reading_level, in tenths of a grade
actual_reading_level(student_id) ==
    CASE student_id = 1 -> 70
      [] student_id = 2 -> 62
      [] student_id = 3 -> 75
      [] OTHER -> 50

\* Student.assigned_grade
assigned_grade(student_id) ==
    CASE student_id = 2 -> 7
      [] student_id = 3 -> 6
      [] OTHER -> 7

\* VocabularyWord.grade_level
grade_level(word_id) == vocabulary_words[word_id]

\* vocabulary_words as seeded for the engine runs
seeded_grade_level(word_id) ==
    CASE word_id = 1 -> 6
      [] word_id = 4 -> 8
      [] OTHER -> 7

\* Book.reading_level, in tenths of a grade, or NoLevel
reading_level(book_id) ==
    CASE book_id = 1 -> 70
      [] book_id = 2 -> NoLevel
      [] book_id = 3 -> 75
      [] book_id = 4 -> 82
      [] OTHER -> 65

\* book_vocabulary as first seeded
seeded_book_vocabulary(book_id) ==
    CASE book_id = 1 -> {1, 2}
      [] book_id = 2 -> {2, 3}
      [] book_id = 3 -> {1, 2, 3}
      [] book_id = 4 -> {1, 3}
      [] OTHER -> {1}

\* absent student_vocabulary row
NoRecord == [usage_count |-> -1]

(***************************************************************************)
(* Vocabulary Profile Builder                                              *)
(***************************************************************************)
\* int(round(x)): Python rounds halves to the even neighbour
round_level(level) ==
    LET q == level \div 10
        r == level % 10
    IN  IF r < 5 THEN q
        ELSE IF r > 5 THEN q + 1
        ELSE IF q % 2 = 0 THEN q ELSE q + 1

\* hash(f"{student_id}_{word.id}") % 100.  CPython salts str hashes with a
\* per-process random key: the value is a fixed function of the key and of
\* the salt of the process that computes it.
word_hash(seed, student_id, word_id) ==
    ((student_id * 59 + word_id * 67 + seed * 71) * 3 + 7) % 100

\* baseline percentages, in hundredths
current_grade_baseline(rounded_level) ==
    CASE rounded_level = 5 -> 40
      [] rounded_level = 6 -> 55
      [] rounded_level = 7 -> 75
      [] rounded_level = 8 -> 85
      [] OTHER -> 60

prerequisite_baseline == 95

\* word_hash < (baseline_percent * 100): the float product 0.55 * 100 is
\* 55.00000000000001, every other product used is a whole number
below_baseline(h, baseline_percent) ==
    h < baseline_percent \/ (baseline_percent = 55 /\ h = 55)

\* rows of student_vocabulary with correct_usage_count > 0, for one student
used_word_ids(student_id) ==
    {w \in Words : /\ student_vocabulary[<<student_id, w>>] # NoRecord
                   /\ student_vocabulary[<<student_id, w>>].correct_usage_count > 0}

\* get_student_vocabulary_profile: word_id -> weight
baseline_words(seed, student_id) ==
    LET level == round_level(actual_reading_level(student_id))
        grade == assigned_grade(student_id)
    IN  {w \in Words :
            \/ /\ grade_level(w) < grade
               /\ below_baseline(word_hash(seed, student_id, w), prerequisite_baseline)
            \/ /\ grade_level(w) = grade
               /\ below_baseline(word_hash(seed, student_id, w),
                                 current_grade_baseline(level))}

get_student_vocabulary_profile(seed, student_id) ==
    LET used == used_word_ids(student_id)
    IN  [w \in baseline_words(seed, student_id) \cup used |->
            IF w \in used
            THEN student_vocabulary[<<student_id, w>>].correct_usage_count
            ELSE 1]

(***************************************************************************)
(* Book Vocabulary Accessor and Overlap Calculator                         *)
(***************************************************************************)
get_book_vocabulary(book_id) == book_vocabulary[book_id]

\* calculate_vocabulary_overlap: <<known_words, new_words, overlap_percent>>
calculate_vocabulary_overlap(student_vocab, book_vocab) ==
    LET known_words == book_vocab \cap DOMAIN student_vocab
        new_words == book_vocab \ DOMAIN student_vocab
        total == Cardinality(book_vocab)
    IN  <<known_words, new_words,
          IF total = 0 THEN 0 ELSE (Cardinality(known_words) * PUnit) \div total>>

(***************************************************************************)
(* Sorting.  list.sort(key=..., reverse=True) is stable: elements with     *)
(* equal keys keep their order.                                            *)
(***************************************************************************)
\* matches.sort(key=lambda x: x[1], reverse=True)
RECURSIVE insert_match(_, _)
insert_match(sorted, x) ==
    IF sorted = <<>> THEN <<x>>
    ELSE IF x.match_score > Head(sorted).match_score THEN <<x>> \o sorted
    ELSE <<Head(sorted)>> \o insert_match(Tail(sorted), x)

RECURSIVE sort_matches(_)
sort_matches(seq) ==
    IF seq = <<>> THEN <<>>
    ELSE insert_match(sort_matches(SubSeq(seq, 1, Len(seq) - 1)), seq[Len(seq)])

Prefix(seq, n) == SubSeq(seq, 1, Min(n, Len(seq)))

\* the sequences that list every element of S once: the orders in which a
\* query without ORDER BY can return the rows S
Orderings(S) ==
    {f \in [1..Cardinality(S) -> S] : \A i, j \in DOMAIN f : i # j => f[i] # f[j]}

(***************************************************************************)
(* Ranking & Selection, phase 1 (generate_student_recommendations)         *)
(***************************************************************************)
TopN == 3        \* top_3 = matches[:3]

ClassTopN == 2   \* top_2 = book_aggregates[:2]

\* the tuple (book, match_score, known_words_percent, new_words_count)
match_entry(seed, student_id, book_id) ==
    LET overlap == calculate_vocabulary_overlap(
                       get_student_vocabulary_profile(seed, student_id),
                       get_book_vocabulary(book_id))
        new_words_count == Cardinality(overlap[2])
    IN  [book_id |-> book_id,
         match_score |-> calculate_match_score(overlap[3], new_words_count,
                             reading_level(book_id), actual_reading_level(student_id)),
         known_words_percent |-> overlap[3],
         new_words_count |-> new_words_count]

\* the loop of match_student_to_books: books without vocabulary are skipped
RECURSIVE score_books(_, _, _)
score_books(seed, student_id, all_books) ==
    IF all_books = <<>> THEN <<>>
    ELSE IF get_book_vocabulary(Head(all_books)) = {}
    THEN score_books(seed, student_id, Tail(all_books))
    ELSE <<match_entry(seed, student_id, Head(all_books))>>
         \o score_books(seed, student_id, Tail(all_books))

\* the matches in the order of the loop, without the sort
match_student_to_books_unsorted(seed, student_id, all_books) ==
    score_books(seed, student_id, all_books)

match_student_to_books(seed, student_id, all_books) ==
    sort_matches(score_books(seed, student_id, all_books))

(***************************************************************************)
(* Phase 2 (store_student_recommendations)                                 *)
(***************************************************************************)
MinOf(S) == CHOOSE x \in S : \A y \in S : x <= y

\* rows of a table, one element per copy
Copies(table) == UNION {{<<r, k>> : k \in 1..table[r]} : r \in DOMAIN table}

Singleton(row) == SetToBag({row})

\* an iteration that adds a row without looking for an existing one
upsert_student_row_always_insert(table, student_id, m) ==
    {table (+) Singleton([student_id |-> student_id,
                          book_id |-> m.book_id,
                          match_score |-> m.match_score,
                          known_words_percent |-> m.known_words_percent,
                          new_words_count |-> m.new_words_count])}

\* one iteration over top_3: query(...).first() yields a row of
\* (student_id, book_id), any one if there are several, which is updated in
\* place; without one a new row is added.  The tables that can result.
upsert_student_row(table, student_id, m) ==
    LET existing == {r \in DOMAIN table : /\ r.student_id = student_id
                                          /\ r.book_id = m.book_id}
        row == [student_id |-> student_id,
                book_id |-> m.book_id,
                match_score |-> m.match_score,
                known_words_percent |-> m.known_words_percent,
                new_words_count |-> m.new_words_count]
    IN  IF existing # {}
        THEN {(table (-) Singleton(old)) (+) Singleton(row) : old \in existing}
        ELSE {table (+) Singleton(row)}

\* the loop over top_3 for one student
RECURSIVE upsert_student_rows(_, _, _)
upsert_student_rows(table, student_id, top_3) ==
    IF top_3 = <<>> THEN {table}
    ELSE UNION {upsert_student_rows(next, student_id, Tail(top_3)) :
                   next \in upsert_student_row(table, student_id, Head(top_3))}

\* total_updated += 1 for every entry of top_3 whose (student_id, book_id)
\* has a row, total_inserted += 1 for every other; the entries of one
\* student name different books
count_totals(totals, table, student_id, top_3) ==
    LET found == {i \in DOMAIN top_3 :
                     \E r \in DOMAIN table : /\ r.student_id = student_id
                                             /\ r.book_id = top_3[i].book_id}
    IN  [total_inserted |-> totals.total_inserted + Len(top_3) - Cardinality(found),
         total_updated |-> totals.total_updated + Cardinality(found)]

(***************************************************************************)
(* Phase 3 (generate_class_recommendations)                                *)
(***************************************************************************)
\* a fraction in lowest terms
Frac(n, d) == LET g == GCD(n, d) IN [num |-> n \div g, den |-> d \div g]

frac_less(a, b) == a.num * b.den < b.num * a.den

RECURSIVE sum_scores(_, _)
sum_scores(table, rows) ==
    IF rows = {} THEN 0
    ELSE LET r == CHOOSE x \in rows : TRUE
         IN  r.match_score * table[r] + sum_scores(table, rows \ {r})

RECURSIVE count_rows(_, _)
count_rows(table, rows) ==
    IF rows = {} THEN 0
    ELSE LET r == CHOOSE x \in rows : TRUE
         IN  table[r] + count_rows(table, rows \ {r})

\* one element of book_aggregates; average_match_score is
\* total_score / count, kept as a fraction
book_aggregate(table, book_id) ==
    LET rows == {r \in DOMAIN table : r.book_id = book_id}
    IN  [book_id |-> book_id,
         students_recommended_count |-> Cardinality({r.student_id : r \in rows}),
         average_match_score |-> Frac(sum_scores(table, rows), count_rows(table, rows)),
         total_recommendations |-> count_rows(table, rows)]

\* an order by average_match_score alone
aggregate_before_by_score(x, y) ==
    frac_less(y.average_match_score, x.average_match_score)

\* x sorts before y under
\* key=(students_recommended_count, average_match_score), reverse=True
aggregate_before(x, y) ==
    \/ x.students_recommended_count > y.students_recommended_count
    \/ /\ x.students_recommended_count = y.students_recommended_count
       /\ frac_less(y.average_match_score, x.average_match_score)

RECURSIVE insert_aggregate(_, _)
insert_aggregate(sorted, x) ==
    IF sorted = <<>> THEN <<x>>
    ELSE IF aggregate_before(x, Head(sorted)) THEN <<x>> \o sorted
    ELSE <<Head(sorted)>> \o insert_aggregate(Tail(sorted), x)

RECURSIVE sort_aggregates(_)
sort_aggregates(seq) ==
    IF seq = <<>> THEN <<>>
    ELSE insert_aggregate(sort_aggregates(SubSeq(seq, 1, Len(seq) - 1)), seq[Len(seq)])

(***************************************************************************)
(* Phase 4 (store_class_recommendations)                                   *)
(***************************************************************************)
upsert_class_row(table, book_info) ==
    LET existing == {r \in DOMAIN table : r.book_id = book_info.book_id}
        row == [book_id |-> book_info.book_id,
                match_score |-> book_info.average_match_score,
                students_recommended_count |-> book_info.students_recommended_count]
    IN  IF existing # {}
        THEN {(table (-) Singleton(old)) (+) Singleton(row) : old \in existing}
        ELSE {table (+) Singleton(row)}

RECURSIVE upsert_class_rows(_, _)
upsert_class_rows(table, top) ==
    IF top = <<>> THEN {table}
    ELSE UNION {upsert_class_rows(next, Tail(top)) :
                   next \in upsert_class_row(table, Head(top))}

(***************************************************************************)
(* Mastery/Stats Aggregator (services/student_service.py, class_service.py)*)
(***************************************************************************)
\* a / b on floats: a fraction; den = 0 stands for ZeroDivisionError, which
\* propagates through everything computed from it
py_div(a, b) == [num |-> a, den |-> b]

raised(x) == x.den = 0

frac_add(a, b) == [num |-> a.num * b.den + b.num * a.den, den |-> a.den * b.den]

\* min(100.0, x)
cap_100(x) == IF x.num > 100 * x.den THEN [num |-> 100 * x.den, den |-> x.den] ELSE x

\* db.query(VocabularyWord).filter(grade_level == student.assigned_grade)
grade_words(student_id) == {w \in Words : grade_level(w) = assigned_grade(student_id)}

\* _get_baseline_mastery_percent, in hundredths
get_baseline_mastery_percent(rounded_level) ==
    CASE rounded_level = 5 -> 40
      [] rounded_level = 6 -> 55
      [] rounded_level = 7 -> 75
      [] rounded_level = 8 -> 85
      [] OTHER -> 60

\* _calculate_baseline_words_known
calculate_baseline_words_known(seed, student_id, words, baseline_percent) ==
    {w \in words : below_baseline(word_hash(seed, student_id, w), baseline_percent)}

\* all_known_words of calculate_vocab_mastery_percent, get_missing_words and
\* get_student_by_id
service_known_words(seed, student_id) ==
    calculate_baseline_words_known(seed, student_id, grade_words(student_id),
        get_baseline_mastery_percent(round_level(actual_reading_level(student_id))))
    \cup used_word_ids(student_id)

\* the computation without "if total_words == 0: return 0.0"
calculate_vocab_mastery_percent_unguarded(seed, student_id) ==
    cap_100(py_div(Cardinality(service_known_words(seed, student_id)) * 100,
                   Cardinality(grade_words(student_id))))

\* calculate_vocab_mastery_percent, as a fraction
calculate_vocab_mastery_percent(seed, student_id) ==
    IF Cardinality(grade_words(student_id)) = 0
    THEN [num |-> 0, den |-> 1]
    ELSE cap_100(py_div(Cardinality(service_known_words(seed, student_id)) * 100,
                        Cardinality(grade_words(student_id))))

\* get_class_stats: total_mastery accumulated over the students ...
RECURSIVE total_mastery(_, _)
total_mastery(seed, students) ==
    IF students = {} THEN [num |-> 0, den |-> 1]
    ELSE LET s == MinOf(students)
         IN  frac_add(calculate_vocab_mastery_percent(seed, s),
                      total_mastery(seed, students \ {s}))

\* ... and avg_mastery = total_mastery / total_students
avg_vocab_mastery_percent(seed) ==
    IF Cardinality(Students) = 0 THEN [num |-> 0, den |-> 1]
    ELSE LET total == total_mastery(seed, Students)
         IN  py_div(total.num, total.den * Cardinality(Students))

(***************************************************************************)
(* Read paths of the API.  ORDER BY match_score DESC LIMIT n leaves the    *)
(* order of equal scores to the database: each operator is the set of the  *)
(* answers the query can give.                                             *)
(***************************************************************************)
Range(seq) == {seq[i] : i \in DOMAIN seq}

\* the sequences of n different elements of S (all of S if it has fewer)
Picks(S, n) ==
    {q \in [1..Min(n, Cardinality(S)) -> S] :
        \A i, j \in DOMAIN q : i # j => q[i] # q[j]}

\* query(StudentRecommendation).filter(student_id == ...)
\*     .order_by(match_score.desc()).limit(3)
get_student_recommendations(student_id) ==
    LET mine == {c \in Copies(student_recommendations) : c[1].student_id = student_id}
        answers == {q \in Picks(mine, TopN) :
            /\ \A i, j \in DOMAIN q : i < j => q[i][1].match_score >= q[j][1].match_score
            /\ \A i \in DOMAIN q : \A c \in mine \ Range(q) :
                   q[i][1].match_score >= c[1].match_score}
    IN  {[i \in DOMAIN q |-> q[i][1]] : q \in answers}

\* get_student_by_id runs the same query for book_recommendations
get_student_by_id_book_recommendations(student_id) ==
    get_student_recommendations(student_id)

\* query(ClassRecommendation).order_by(match_score.desc()).limit(2)
get_class_recommendations ==
    LET all == Copies(class_recommendations)
        answers == {q \in Picks(all, ClassTopN) :
            /\ \A i, j \in DOMAIN q : i < j =>
                   ~ frac_less(q[i][1].match_score, q[j][1].match_score)
            /\ \A i \in DOMAIN q : \A c \in all \ Range(q) :
                   ~ frac_less(q[i][1].match_score, c[1].match_score)}
    IN  {[i \in DOMAIN q |-> q[i][1]] : q \in answers}

book_ids(rows) == [i \in DOMAIN rows |-> rows[i].book_id]

(***************************************************************************)
(* Initial state: reference data seeded, no usage analysed, no run made.   *)
(***************************************************************************)
NoArgs == [known_percent |-> 0, new_words_count |-> 0,
           book_reading_level |-> NoLevel, student_reading_level |-> 0]

NoResult == -1

NoResponse == [kind |-> "none"]

MaxUsage == 1     \* usage_count of a word in a student's text: 1..MaxUsage

\* the engine processes of two invocations that overlap
Processes == {1, 2}

NoStudent == 0

\* no process has been started
NoSessions ==
    [p \in Processes |->
        [pc |-> "idle", matches |-> [s \in Students |-> <<>>], pending |-> {},
         student |-> NoStudent, staged |-> <<>>, inserted |-> {},
         top_2 |-> <<>>, class_staged |-> <<>>, class_inserted |-> {}]]

\* total_inserted = 0, total_updated = 0
NoTotals == [total_inserted |-> 0, total_updated |-> 0]

InitTables ==
    /\ student_vocabulary = [k \in Students \X Words |-> NoRecord]
    /\ book_vocabulary = [b \in Books |-> seeded_book_vocabulary(b)]
    /\ student_recommendations = EmptyBag
    /\ class_recommendations = EmptyBag
    /\ pc = "idle"
    /\ hash_seed = 0
    /\ matches = [s \in Students |-> <<>>]
    /\ pending = {}
    /\ top_2 = <<>>
    /\ runs = 0
    /\ changes = 0
    /\ store_errors = {}
    /\ clock = 0
    /\ store_result = NoTotals
    /\ committed = NoTotals
    /\ sessions = NoSessions

Init ==
    /\ args = NoArgs
    /\ result = NoResult
    /\ response = NoResponse
    /\ vocabulary_words = [w \in Words |-> seeded_grade_level(w)]
    /\ api_hash_seed \in HashSeeds
    /\ InitTables

(***************************************************************************)
(* Data changes between runs.  The reference and usage tables are not      *)
(* written while the engine runs.                                          *)
(***************************************************************************)
\* what the correctness judgement can report; misuse_examples <<>> is stored
\* as None
Analyses ==
    [correct_usage_count : 0..MaxUsage, misuse_examples : {<<>>, <<"sentence">>}]

\* an ingestion that replaces an existing record by a new one
build_student_profile_replacing_record(student_id, word_id, usage_count, analysis) ==
    /\ pc = "idle"
    /\ changes < MaxChanges
    /\ LET old == student_vocabulary[<<student_id, word_id>>]
           new == IF old = NoRecord
                  THEN [usage_count |-> usage_count,
                        correct_usage_count |-> analysis.correct_usage_count,
                        misuse_examples |-> analysis.misuse_examples,
                        dismissed |-> FALSE,
                        dismissed_reason |-> "None",
                        dismissed_at |-> 0]
                  ELSE [usage_count |-> usage_count,
                        correct_usage_count |-> analysis.correct_usage_count,
                        misuse_examples |-> analysis.misuse_examples,
                        dismissed |-> FALSE,
                        dismissed_reason |-> "None",
                        dismissed_at |-> 0]
       IN  /\ new # old
           /\ student_vocabulary' =
                  [student_vocabulary EXCEPT ![<<student_id, word_id>>] = new]
    /\ changes' = changes + 1
    /\ response' = NoResponse
    /\ UNCHANGED <<clock, sessions, store_result, committed, store_errors, args, result, vocabulary_words, book_vocabulary,
                   student_recommendations, class_recommendations, pc, hash_seed,
                   api_hash_seed, matches, pending, top_2, runs>>

\* build_student_profile for a text in which one vocabulary word occurs
\* usage_count times; analysis is what analyze_vocabulary_usage returned.
\* A text with several words has the effect of one call per word.
build_student_profile(student_id, word_id, usage_count, analysis) ==
    /\ pc = "idle"
    /\ changes < MaxChanges
    /\ LET old == student_vocabulary[<<student_id, word_id>>]
           new == IF old = NoRecord
                  THEN [usage_count |-> usage_count,
                        correct_usage_count |-> analysis.correct_usage_count,
                        misuse_examples |-> analysis.misuse_examples,
                        dismissed |-> FALSE,
                        dismissed_reason |-> "None",
                        dismissed_at |-> 0]
                  ELSE [old EXCEPT !.usage_count = usage_count,
                                   !.correct_usage_count = analysis.correct_usage_count,
                                   !.misuse_examples = analysis.misuse_examples]
       IN  /\ new # old
           /\ student_vocabulary' =
                  [student_vocabulary EXCEPT ![<<student_id, word_id>>] = new]
    /\ changes' = changes + 1
    /\ response' = NoResponse
    /\ UNCHANGED <<clock, sessions, store_result, committed, store_errors, args, result, vocabulary_words, book_vocabulary,
                   student_recommendations, class_recommendations, pc, hash_seed,
                   api_hash_seed, matches, pending, top_2, runs>>

\* seed_books.py, phase2_extract_vocabulary, for a book already in the
\* table: its vocabulary rows are deleted and inserted again
phase2_extract_vocabulary(book_id, matched_vocab) ==
    /\ pc = "idle"
    /\ changes < MaxChanges
    /\ matched_vocab # book_vocabulary[book_id]
    /\ book_vocabulary' = [book_vocabulary EXCEPT ![book_id] = matched_vocab]
    /\ changes' = changes + 1
    /\ UNCHANGED <<clock, sessions, store_result, committed, store_errors, args, result, response, vocabulary_words, student_vocabulary,
                   student_recommendations, class_recommendations, pc, hash_seed,
                   api_hash_seed, matches, pending, top_2, runs>>

\* the API server process is started again: a new str-hash salt
api_server_start(seed) ==
    /\ seed # api_hash_seed
    /\ api_hash_seed' = seed
    /\ response' = NoResponse
    /\ UNCHANGED <<clock, sessions, store_result, committed, store_errors, args, result, vocabulary_words, student_vocabulary,
                   book_vocabulary, student_recommendations, class_recommendations,
                   pc, hash_seed, matches, pending, top_2, runs, changes>>

(***************************************************************************)
(* The engine process (run_recommendation_engine).                         *)
(***************************************************************************)
\* python scripts/generate_recommendations.py: a new process, a new salt
run_recommendation_engine(seed) ==
    /\ pc = "idle"
    /\ runs < MaxRuns
    /\ pc' = "phase1"
    /\ hash_seed' = seed
    /\ runs' = runs + 1
    /\ store_errors' = {}
    /\ store_result' = NoTotals
    /\ committed' = NoTotals
    /\ UNCHANGED <<clock, sessions, args, result, response, vocabulary_words, student_vocabulary,
                   book_vocabulary, student_recommendations, class_recommendations,
                   api_hash_seed, matches, pending, top_2, changes>>

\* phase 1; all_books is the order in which db.query(Book).all() lists the
\* books.  A student without matches gets no entry: matches[s] = <<>>.
generate_student_recommendations ==
    /\ pc = "phase1"
    /\ \E all_books \in Orderings(Books) :
           matches' = [s \in Students |->
               Prefix(match_student_to_books(hash_seed, s, all_books), TopN)]
    /\ pending' = {s \in Students : matches'[s] # <<>>}
    /\ pc' = "phase2"
    /\ UNCHANGED <<clock, sessions, store_result, committed, store_errors, args, result, response, vocabulary_words, student_vocabulary,
                   book_vocabulary, student_recommendations, class_recommendations,
                   hash_seed, api_hash_seed, top_2, runs, changes>>

\* phase 2, one iteration of the loop over matches.items(): the rows of one
\* student and db.commit(), which succeeds: no constraint of
\* student_recommendations fails while students and books are only read.
store_student_recommendations ==
    /\ pc = "phase2"
    /\ \E student_id \in pending :
           /\ student_recommendations' \in
                  upsert_student_rows(student_recommendations, student_id,
                                      matches[student_id])
           /\ pending' = pending \ {student_id}
           /\ store_result' = count_totals(store_result, student_recommendations,
                                           student_id, matches[student_id])
           /\ committed' = count_totals(committed, student_recommendations,
                                        student_id, matches[student_id])
    /\ UNCHANGED <<clock, sessions, store_errors, args, result, response, vocabulary_words, student_vocabulary,
                   book_vocabulary, class_recommendations, pc, hash_seed,
                   api_hash_seed, matches, top_2, runs, changes>>

\* a rollback that leaves the flushed rows in the table
rollback_keeping_flushed(table, flushed) == flushed

\* db.rollback(): the rows flushed by the failed commit are undone, the
\* table is what the last successful commit left
rollback(table, flushed) == table

\* phase 2, one iteration in which db.commit() raises IntegrityError (a
\* student or book row went away under the foreign keys while the engine
\* ran): rollback, the error is printed, the loop continues
store_student_recommendations_integrity_error ==
    /\ pc = "phase2"
    /\ \E student_id \in pending :
           /\ \E flushed \in upsert_student_rows(student_recommendations, student_id,
                                                 matches[student_id]) :
                  student_recommendations' = rollback(student_recommendations, flushed)
           /\ pending' = pending \ {student_id}
           /\ store_errors' = store_errors \cup {student_id}
           /\ store_result' = count_totals(store_result, student_recommendations,
                                           student_id, matches[student_id])
    /\ UNCHANGED <<clock, sessions, committed, args, result, response, vocabulary_words, student_vocabulary,
                   book_vocabulary, class_recommendations, pc, hash_seed,
                   api_hash_seed, matches, top_2, runs, changes>>

\* a return from phase 2 that does not wait for the end of the loop
store_student_recommendations_return_early ==
    /\ pc = "phase2"
    /\ pc' = "phase3"
    /\ UNCHANGED <<clock, sessions, store_result, committed, store_errors, args, result, response, vocabulary_words, student_vocabulary,
                   book_vocabulary, student_recommendations, class_recommendations,
                   hash_seed, api_hash_seed, matches, pending, top_2, runs, changes>>

\* phase 2 returns; verify_student_recommendations only reads
store_student_recommendations_return ==
    /\ pc = "phase2"
    /\ pending = {}
    /\ pc' = "phase3"
    /\ UNCHANGED <<clock, sessions, store_result, committed, store_errors, args, result, response, vocabulary_words, student_vocabulary,
                   book_vocabulary, student_recommendations, class_recommendations,
                   hash_seed, api_hash_seed, matches, pending, top_2, runs, changes>>

\* phase 3; order is the order in which the books first appear in
\* db.query(StudentRecommendation).all().  Without rows the run exits.
generate_class_recommendations ==
    /\ pc = "phase3"
    /\ IF student_recommendations = EmptyBag
       THEN /\ pc' = "idle"
            /\ top_2' = top_2
            /\ store_result' = NoTotals
            /\ committed' = NoTotals
       ELSE /\ \E order \in Orderings({r.book_id : r \in DOMAIN student_recommendations}) :
                   top_2' = Prefix(sort_aggregates(
                       [i \in DOMAIN order |->
                           book_aggregate(student_recommendations, order[i])]),
                       ClassTopN)
            /\ pc' = "phase4"
            /\ UNCHANGED <<store_result, committed>>
    /\ UNCHANGED <<clock, sessions, store_errors, args, result, response, vocabulary_words, student_vocabulary,
                   book_vocabulary, student_recommendations, class_recommendations,
                   hash_seed, api_hash_seed, matches, pending, runs, changes>>

\* phase 4 and the end of the run
store_class_recommendations ==
    /\ pc = "phase4"
    /\ class_recommendations' \in upsert_class_rows(class_recommendations, top_2)
    /\ pc' = "idle"
    /\ store_result' = NoTotals
    /\ committed' = NoTotals
    /\ UNCHANGED <<clock, sessions, store_errors, args, result, response, vocabulary_words, student_vocabulary,
                   book_vocabulary, student_recommendations, hash_seed,
                   api_hash_seed, matches, pending, top_2, runs, changes>>

\* the engine and the mastery statistics read correct_usage_count only:
\* analyses without misuse examples give every known set an analysis can give
EngineAnalyses == {a \in Analyses : a.misuse_examples = <<>>}

Next ==
    \/ \E student_id \in Students, word_id \in Words,
          usage_count \in 1..MaxUsage, analysis \in EngineAnalyses :
           build_student_profile(student_id, word_id, usage_count, analysis)
    \/ \E book_id \in Books, matched_vocab \in SUBSET Words :
           phase2_extract_vocabulary(book_id, matched_vocab)
    \/ \E seed \in HashSeeds : api_server_start(seed)
    \/ \E seed \in HashSeeds : run_recommendation_engine(seed)
    \/ generate_student_recommendations
    \/ store_student_recommendations
    \/ store_student_recommendations_return
    \/ generate_class_recommendations
    \/ store_class_recommendations

Spec == Init /\ [][Next]_vars

(***************************************************************************)
(* Engine runs in which a commit of phase 2 can fail; the runs differ in   *)
(* their baseline decisions and in the direction the tables are listed in. *)
(***************************************************************************)
\* the listings of a table a scan by id gives: ascending and descending
ScanOrders(S) ==
    {o \in Orderings(S) : \/ \A i, j \in DOMAIN o : i < j => o[i] < o[j]
                          \/ \A i, j \in DOMAIN o : i < j => o[i] > o[j]}

\* phase 1 when db.query(Book).all() lists the books by id
generate_student_recommendations_scan ==
    /\ pc = "phase1"
    /\ \E all_books \in ScanOrders(Books) :
           matches' = [s \in Students |->
               Prefix(match_student_to_books(hash_seed, s, all_books), TopN)]
    /\ pending' = {s \in Students : matches'[s] # <<>>}
    /\ pc' = "phase2"
    /\ UNCHANGED <<clock, sessions, store_result, committed, store_errors, args, result, response, vocabulary_words, student_vocabulary,
                   book_vocabulary, student_recommendations, class_recommendations,
                   hash_seed, api_hash_seed, top_2, runs, changes>>

\* phase 3 when the rows of student_recommendations come by book id
generate_class_recommendations_scan ==
    /\ pc = "phase3"
    /\ IF student_recommendations = EmptyBag
       THEN /\ pc' = "idle"
            /\ top_2' = top_2
            /\ store_result' = NoTotals
            /\ committed' = NoTotals
       ELSE /\ \E order \in ScanOrders({r.book_id : r \in DOMAIN student_recommendations}) :
                   top_2' = Prefix(sort_aggregates(
                       [i \in DOMAIN order |->
                           book_aggregate(student_recommendations, order[i])]),
                       ClassTopN)
            /\ pc' = "phase4"
            /\ UNCHANGED <<store_result, committed>>
    /\ UNCHANGED <<clock, sessions, store_errors, args, result, response, vocabulary_words, student_vocabulary,
                   book_vocabulary, student_recommendations, class_recommendations,
                   hash_seed, api_hash_seed, matches, pending, runs, changes>>

InitFault ==
    /\ args = NoArgs
    /\ result = NoResult
    /\ response = NoResponse
    /\ vocabulary_words = [w \in Words |-> seeded_grade_level(w)]
    /\ api_hash_seed = 0
    /\ InitTables

NextFault ==
    \/ \E seed \in HashSeeds : run_recommendation_engine(seed)
    \/ generate_student_recommendations_scan
    \/ store_student_recommendations
    \/ store_student_recommendations_integrity_error
    \/ store_student_recommendations_return
    \/ generate_class_recommendations_scan
    \/ store_class_recommendations

SpecFault == InitFault /\ [][NextFault]_vars

(***************************************************************************)
(* Engine runs over data that no longer changes once the first run has     *)
(* started, every run with the baseline decisions of the first.            *)
(***************************************************************************)
run_recommendation_engine_again(seed) ==
    /\ runs > 0 => seed = hash_seed
    /\ run_recommendation_engine(seed)

\* usage analysis that is over before the first run
build_student_profile_before_runs(student_id, word_id, usage_count, analysis) ==
    /\ runs = 0
    /\ build_student_profile(student_id, word_id, usage_count, analysis)

\* book seeding that is over before the first run
phase2_extract_vocabulary_before_runs(book_id, matched_vocab) ==
    /\ runs = 0
    /\ phase2_extract_vocabulary(book_id, matched_vocab)

NextRerun ==
    \/ \E student_id \in Students, word_id \in Words,
          usage_count \in 1..MaxUsage, analysis \in EngineAnalyses :
           build_student_profile_before_runs(student_id, word_id, usage_count, analysis)
    \/ \E book_id \in Books, matched_vocab \in SUBSET Words :
           phase2_extract_vocabulary_before_runs(book_id, matched_vocab)
    \/ \E seed \in HashSeeds : run_recommendation_engine_again(seed)
    \/ generate_student_recommendations
    \/ store_student_recommendations
    \/ store_student_recommendations_return
    \/ generate_class_recommendations
    \/ store_class_recommendations

SpecRerun == InitFault /\ [][NextRerun]_vars

(***************************************************************************)
(* The services on their own: usage analysis and the API server, over any  *)
(* assignment of grade levels to the vocabulary words.                     *)
(***************************************************************************)
GradeLevels == {6, 7, 8}

\* seed_vocabulary.py inserts the words of the grade files in the order of
\* the grades: the tables in which grade_level does not decrease with the id
Seedings ==
    {v \in [Words -> GradeLevels] : \A w1, w2 \in Words : w1 <= w2 => v[w1] <= v[w2]}

InitService ==
    /\ args = NoArgs
    /\ result = NoResult
    /\ response = NoResponse
    /\ vocabulary_words \in Seedings
    /\ api_hash_seed \in HashSeeds
    /\ InitTables

\* get_missing_words: the words of the assigned grade outside the known set
get_missing_words(seed, student_id) ==
    {w \in grade_words(student_id) : w \notin service_known_words(seed, student_id)}

\* get_misused_words: one entry per record of the student that has misuse
\* examples and is not dismissed (the query returns them in any order)
get_misused_words(student_id) ==
    {[word_id |-> w,
      correct_count |-> student_vocabulary[<<student_id, w>>].correct_usage_count,
      incorrect_count |-> student_vocabulary[<<student_id, w>>].usage_count
                          - student_vocabulary[<<student_id, w>>].correct_usage_count,
      example |-> student_vocabulary[<<student_id, w>>].misuse_examples[1]] :
        w \in {x \in Words :
                 /\ student_vocabulary[<<student_id, x>>] # NoRecord
                 /\ student_vocabulary[<<student_id, x>>].misuse_examples # <<>>
                 /\ student_vocabulary[<<student_id, x>>].dismissed = FALSE}}

\* get_class_stats, word_misuse_count[word_id]: the students with a record
\* of the word that has misuse examples
word_misuse_count(word_id) ==
    Cardinality({s \in Students :
                    /\ student_vocabulary[<<s, word_id>>] # NoRecord
                    /\ student_vocabulary[<<s, word_id>>].misuse_examples # <<>>})

TopWords == 10   \* sorted(...)[:10]

\* the word sets sorted(word_misuse_count.items(), ...)[:10] can keep: the
\* TopWords words with the greatest counts, any of them when counts tie
top_misused ==
    LET counted == {w \in Words : word_misuse_count(w) > 0}
    IN  {top \in SUBSET counted :
            /\ Cardinality(top) = Min(TopWords, Cardinality(counted))
            /\ \A w \in top : \A x \in counted \ top :
                   word_misuse_count(w) >= word_misuse_count(x)}

\* total_misuse_count: the rows of the word with misuse_examples not NULL
total_misuse_count(word_id) ==
    Cardinality({s \in Students :
                    /\ student_vocabulary[<<s, word_id>>] # NoRecord
                    /\ student_vocabulary[<<s, word_id>>].misuse_examples # <<>>})

\* GET /api/students/{id}: an exception of the handler is a 500 response
get_student_by_id(student_id) ==
    /\ LET mastery_percent == calculate_vocab_mastery_percent(api_hash_seed, student_id)
       IN  \E book_recommendations \in get_student_by_id_book_recommendations(student_id) :
               response' =
                   IF raised(mastery_percent) THEN [kind |-> "error"]
                   ELSE [kind |-> "student",
                         id |-> student_id,
                         vocab_mastery |->
                             [total_grade_level_words |->
                                  Cardinality(grade_words(student_id)),
                              words_mastered |->
                                  Cardinality(service_known_words(api_hash_seed,
                                                                  student_id)),
                              mastery_percent |-> mastery_percent],
                         missing_words |-> get_missing_words(api_hash_seed, student_id),
                         misused_words |-> get_misused_words(student_id),
                         book_recommendations |-> book_recommendations]
    /\ UNCHANGED <<clock, sessions, store_result, committed, store_errors, args, result, vocabulary_words, student_vocabulary,
                   book_vocabulary, student_recommendations, class_recommendations,
                   pc, hash_seed, api_hash_seed, matches, pending, top_2, runs,
                   changes>>

\* get_class_stats, word_missing_count[word_id]: the students without a
\* record of the word that has correct_usage_count > 0, over all of
\* vocab_words
word_missing_count(word_id) ==
    Cardinality({s \in Students : word_id \notin used_word_ids(s)})

\* the word sets sorted(word_missing_count.items(), ...)[:10] can keep
top_missing ==
    LET counted == {w \in Words : word_missing_count(w) > 0}
    IN  {top \in SUBSET counted :
            /\ Cardinality(top) = Min(TopWords, Cardinality(counted))
            /\ \A w \in top : \A x \in counted \ top :
                   word_missing_count(w) >= word_missing_count(x)}

\* GET /api/class/stats
get_class_stats ==
    /\ LET avg_mastery == avg_vocab_mastery_percent(api_hash_seed)
       IN  \E top \in top_misused, missing \in top_missing :
               response' =
                   IF raised(avg_mastery) THEN [kind |-> "error"]
                   ELSE [kind |-> "class_stats",
                         total_students |-> Cardinality(Students),
                         avg_vocab_mastery_percent |-> avg_mastery,
                         top_missing_words |->
                             {[word_id |-> w, students_missing |-> word_missing_count(w)] :
                                 w \in missing},
                         commonly_misused_words |->
                             {[word_id |-> w, misuse_count |-> total_misuse_count(w)] :
                                 w \in top}]
    /\ UNCHANGED <<clock, sessions, store_result, committed, store_errors, args, result, vocabulary_words, student_vocabulary,
                   book_vocabulary, student_recommendations, class_recommendations,
                   pc, hash_seed, api_hash_seed, matches, pending, top_2, runs,
                   changes>>

NextService ==
    \/ \E student_id \in Students, word_id \in Words,
          usage_count \in 1..MaxUsage, analysis \in EngineAnalyses :
           build_student_profile(student_id, word_id, usage_count, analysis)
    \/ \E seed \in HashSeeds : api_server_start(seed)
    \/ \E student_id \in Students : get_student_by_id(student_id)
    \/ get_class_stats

SpecService == InitService /\ [][NextService]_vars

(***************************************************************************)
(* Dismissal of misuse reports: usage analysis, the dismiss route and the  *)
(* two read calls, over the seeded vocabulary.                             *)
(***************************************************************************)
MaxClock == 2     \* dismissals stored per behaviour

ValidReasons == {"addressed", "ai_error"}

\* request.reason: the two accepted strings and one that stands for any other
Reasons == ValidReasons \cup {"other"}

\* a dismissal that also drops the misuse examples
dismissed_record_clearing(record, reason, dismissed_at) ==
    [record EXCEPT !.dismissed = TRUE, !.dismissed_reason = reason,
                   !.dismissed_at = dismissed_at, !.misuse_examples = <<>>]

\* the three assignments of dismiss_vocabulary_issue
dismissed_record(record, reason, dismissed_at) ==
    [record EXCEPT !.dismissed = TRUE, !.dismissed_reason = reason,
                   !.dismissed_at = dismissed_at]

\* the route without its check of request.reason
dismiss_vocabulary_unvalidated(student_id, word_id, reason) ==
    /\ IF student_vocabulary[<<student_id, word_id>>] = NoRecord
       THEN /\ response' = [kind |-> "not_found"]
            /\ UNCHANGED <<student_vocabulary, clock>>
       ELSE /\ clock < MaxClock
            /\ clock' = clock + 1
            /\ student_vocabulary' =
                   [student_vocabulary EXCEPT ![<<student_id, word_id>>] =
                       dismissed_record(@, reason, clock + 1)]
            /\ response' = [kind |-> "dismissed", success |-> TRUE,
                            dismissed_at |-> clock + 1]
    /\ UNCHANGED <<sessions, store_result, committed, store_errors, args, result,
                   vocabulary_words,
                   book_vocabulary,
                   student_recommendations, class_recommendations, pc, hash_seed,
                   api_hash_seed, matches, pending, top_2, runs, changes>>

\* POST /api/students/{id}/vocabulary/{word_id}/dismiss with
\* dismiss_vocabulary_issue: 400 for a reason that is not accepted, 404
\* without a record, else the record is updated and committed.
\* datetime.now() is read on the last path only.
dismiss_vocabulary(student_id, word_id, reason) ==
    /\ IF reason \notin ValidReasons
       THEN /\ response' = [kind |-> "bad_request"]
            /\ UNCHANGED <<student_vocabulary, clock>>
       ELSE IF student_vocabulary[<<student_id, word_id>>] = NoRecord
       THEN /\ response' = [kind |-> "not_found"]
            /\ UNCHANGED <<student_vocabulary, clock>>
       ELSE /\ clock < MaxClock
            /\ clock' = clock + 1
            /\ student_vocabulary' =
                   [student_vocabulary EXCEPT ![<<student_id, word_id>>] =
                       dismissed_record(@, reason, clock + 1)]
            /\ response' = [kind |-> "dismissed", success |-> TRUE,
                            dismissed_at |-> clock + 1]
    /\ UNCHANGED <<sessions, store_result, committed, store_errors, args, result,
                   vocabulary_words,
                   book_vocabulary,
                   student_recommendations, class_recommendations, pc, hash_seed,
                   api_hash_seed, matches, pending, top_2, runs, changes>>

\* what the text and the correctness judgement of a word can give: used
\* correctly; misused; used twice, once correctly; and a judgement that
\* counts more correct uses than the text has occurrences (the answer of
\* the judgement is stored as it comes)
Judgements ==
    {[usage_count |-> 1,
      analysis |-> [correct_usage_count |-> 1, misuse_examples |-> <<>>]],
     [usage_count |-> 1,
      analysis |-> [correct_usage_count |-> 0, misuse_examples |-> <<"sentence">>]],
     [usage_count |-> 2,
      analysis |-> [correct_usage_count |-> 1, misuse_examples |-> <<"sentence">>]],
     [usage_count |-> 1,
      analysis |-> [correct_usage_count |-> 2, misuse_examples |-> <<"sentence">>]]}

\* the records an earlier run of the usage analysis left behind: none, or
\* one misused word of the last student
PriorProfiles ==
    {[k \in Students \X Words |-> NoRecord],
     [k \in Students \X Words |->
         IF k = <<NumStudents, 1>>
         THEN [usage_count |-> 2, correct_usage_count |-> 1,
               misuse_examples |-> <<"sentence">>, dismissed |-> FALSE,
               dismissed_reason |-> "None", dismissed_at |-> 0]
         ELSE NoRecord]}

InitDismiss ==
    /\ args = NoArgs
    /\ result = NoResult
    /\ response = NoResponse
    /\ vocabulary_words = [w \in Words |-> seeded_grade_level(w)]
    /\ api_hash_seed = 0
    /\ student_vocabulary \in PriorProfiles
    /\ book_vocabulary = [b \in Books |-> seeded_book_vocabulary(b)]
    /\ student_recommendations = EmptyBag
    /\ class_recommendations = EmptyBag
    /\ pc = "idle"
    /\ hash_seed = 0
    /\ matches = [s \in Students |-> <<>>]
    /\ pending = {}
    /\ top_2 = <<>>
    /\ runs = 0
    /\ changes = 0
    /\ store_errors = {}
    /\ clock = 0
    /\ store_result = NoTotals
    /\ committed = NoTotals
    /\ sessions = NoSessions

\* the vocabulary words that occur in the texts and in the requests: one of
\* the grade below and one of the assigned grade
TextWords == {1, 2}

NextDismiss ==
    \/ \E student_id \in Students, word_id \in TextWords, j \in Judgements :
           build_student_profile(student_id, word_id, j.usage_count, j.analysis)
    \/ \E student_id \in Students, word_id \in TextWords, reason \in Reasons :
           dismiss_vocabulary(student_id, word_id, reason)
    \/ \E student_id \in Students : get_student_by_id(student_id)
    \/ get_class_stats

SpecDismiss == InitDismiss /\ [][NextDismiss]_vars

\* the two writers of student_vocabulary alone
NextVocabularyWrites ==
    \/ \E student_id \in Students, word_id \in TextWords, j \in Judgements :
           build_student_profile(student_id, word_id, j.usage_count, j.analysis)
    \/ \E student_id \in Students, word_id \in TextWords, reason \in Reasons :
           dismiss_vocabulary(student_id, word_id, reason)

SpecVocabularyWrites == InitDismiss /\ [][NextVocabularyWrites]_vars

(***************************************************************************)
(* The scorer on its own: every argument tuple of the grid, one call.      *)
(***************************************************************************)
ScoreStudentLevels == {60, 70}

ScoreBookLevels == {NoLevel, 40, 50, 55, 60, 65, 70, 80, 90, 95}

InitScore ==
    /\ args \in [known_percent : (0 - Slack)..(PUnit + Slack),
                 new_words_count : 0..MaxNewWords,
                 book_reading_level : ScoreBookLevels,
                 student_reading_level : ScoreStudentLevels]
    /\ result = NoResult
    /\ response = NoResponse
    /\ vocabulary_words = [w \in Words |-> seeded_grade_level(w)]
    /\ api_hash_seed = 0
    /\ InitTables

call_calculate_match_score ==
    /\ result = NoResult
    /\ result' = calculate_match_score(args.known_percent, args.new_words_count,
                     args.book_reading_level, args.student_reading_level)
    /\ UNCHANGED <<clock, sessions, store_result, committed, store_errors, args, response, vocabulary_words, student_vocabulary,
                   book_vocabulary, student_recommendations, class_recommendations, pc, hash_seed,
                   api_hash_seed, matches, pending, top_2, runs, changes>>

NextScore == call_calculate_match_score

SpecScore == InitScore /\ [][NextScore]_vars

(***************************************************************************)
(* Properties of the scorer (SpecScore).                                   *)
(***************************************************************************)
\* the score of the call in args with known_percent replaced by kp
score_at(kp) ==
    calculate_match_score(kp, args.new_words_count,
                          args.book_reading_level, args.student_reading_level)

\* the score of the call in args with the book's level replaced by level
score_at_level(level) ==
    calculate_match_score(args.known_percent, args.new_words_count,
                          level, args.student_reading_level)

\* C6: calculate_match_score returns a value in [0,1] for every
\* known_percent, also slightly outside [0,1], every new_words_count >= 0,
\* every student reading level and every book reading level, None included.
C6_MatchScoreInUnitInterval ==
    result # NoResult => 0 <= result /\ result <= ScoreOne

\* a call with known_percent above 1 and a book without reading level whose
\* weighted sum is negative
C6_Witness ==
    /\ result # NoResult
    /\ args.known_percent > PUnit
    /\ args.book_reading_level = NoLevel
    /\ raw_match_score(args.known_percent, args.new_words_count,
                       args.book_reading_level, args.student_reading_level) < 0
    /\ result = 0

\* C7 as stated: for fixed new_words_count and reading levels the score
\* strictly decreases as known_percent moves from 0.85 toward 1.0 and as it
\* moves from 0.40 toward 0.0 (here: from each grid point to the next one).
C7_StrictlyDecreasingOutsideBand ==
    result # NoResult =>
        /\ (P85 <= args.known_percent /\ args.known_percent < PUnit)
               => score_at(args.known_percent + 1) < result
        /\ (0 < args.known_percent /\ args.known_percent <= P40)
               => score_at(args.known_percent - 1) < result

\* C7 amended: outside the band the score never increases as known_percent
\* moves away from the band, and it strictly decreases as long as it is
\* above the floor 0 it is clamped to.
C7_DecreasingDownToFloor ==
    result # NoResult =>
        /\ (P85 <= args.known_percent /\ args.known_percent < PUnit)
               => /\ score_at(args.known_percent + 1) <= result
                  /\ result > 0 => score_at(args.known_percent + 1) < result
        /\ (0 < args.known_percent /\ args.known_percent <= P40)
               => /\ score_at(args.known_percent - 1) <= result
                  /\ result > 0 => score_at(args.known_percent - 1) < result

\* a call above the band with a positive score whose neighbour towards 1.0
\* is clamped to 0
C7_Witness ==
    /\ result # NoResult
    /\ P85 < args.known_percent /\ args.known_percent < PUnit
    /\ result > 0
    /\ score_at(args.known_percent + 1) = 0

\* C8: for known_percent in the band [0.40, 0.85] and fixed new_words_count
\* a book whose reading level is closer to the student's never scores
\* lower: score(L) >= score(L+1) >= score(L+2) and
\* score(L) >= score(L-1) >= score(L-2).
C8_CloserLevelNeverScoresLower ==
    (/\ result # NoResult
     /\ args.book_reading_level = args.student_reading_level
     /\ P40 <= args.known_percent /\ args.known_percent <= P85)
    => LET L == args.student_reading_level
       IN  /\ result >= score_at_level(L + 10)
           /\ score_at_level(L + 10) >= score_at_level(L + 20)
           /\ result >= score_at_level(L - 10)
           /\ score_at_level(L - 10) >= score_at_level(L - 20)

\* a call for a book at the student's level, in the band, where one and two
\* grades of distance each cost score
C8_Witness ==
    /\ result # NoResult
    /\ args.book_reading_level = args.student_reading_level
    /\ P40 <= args.known_percent /\ args.known_percent <= P85
    /\ result > score_at_level(args.student_reading_level + 10)
    /\ score_at_level(args.student_reading_level + 10)
           > score_at_level(args.student_reading_level + 20)
    /\ score_at_level(args.student_reading_level - 10)
           > score_at_level(args.student_reading_level - 20)

(***************************************************************************)
(* Properties of the mastery statistics (SpecService).                     *)
(***************************************************************************)
frac_equal(a, b) == a.num * b.den = b.num * a.den

\* C9 as stated: for a student whose assigned grade has T > 0 vocabulary
\* words the mastery percent that get_student_by_id reports is
\* min(100, 100 * |K| / T), K being the known set that
\* get_student_vocabulary_profile produces for the student in the same
\* process over the same tables.
C9_MasteryUsesProfileKnownSet ==
    (response.kind = "student" /\ Cardinality(grade_words(response.id)) > 0)
    => frac_equal(response.vocab_mastery.mastery_percent,
           cap_100(py_div(
               100 * Cardinality(DOMAIN get_student_vocabulary_profile(
                                     api_hash_seed, response.id)),
               Cardinality(grade_words(response.id)))))

\* C10: when no vocabulary word has a student's assigned grade, the
\* student's mastery percent is 0.0 and no call raises; the class-wide
\* average mastery is then a number in [0,100].
C10_NoGradeWordsGivesZero ==
    /\ response.kind # "error"
    /\ (response.kind = "student"
            /\ grade_words(response.id) = {})
       => /\ response.vocab_mastery.mastery_percent.den > 0
          /\ response.vocab_mastery.mastery_percent.num = 0
    /\ (response.kind = "class_stats"
            /\ \E s \in Students : grade_words(s) = {})
       => LET avg == response.avg_vocab_mastery_percent
          IN  /\ avg.den > 0
              /\ 0 <= avg.num
              /\ avg.num <= 100 * avg.den

\* the class statistics were served while a student without words at the
\* assigned grade had used a word correctly
C10_Witness ==
    /\ response.kind = "class_stats"
    /\ \E s \in Students : /\ grade_words(s) = {}
                           /\ used_word_ids(s) # {}

(***************************************************************************)
(* Properties of the engine runs and of the read paths (Spec).             *)
(***************************************************************************)
\* a full run has ended and no other is under way
run_completed == pc = "idle" /\ runs > 0

\* number of rows of student_recommendations of one student
student_row_count(student_id) ==
    Cardinality({c \in Copies(student_recommendations) :
                    c[1].student_id = student_id})

\* C1 as stated: after each full run in which every student got 3 matches
\* (at least 3 scoreable books), first run or re-run, every student has
\* exactly 3 rows in student_recommendations.
C1_ExactlyThreeRowsPerStudent ==
    (run_completed /\ \A s \in Students : Len(matches[s]) = TopN)
    => \A s \in Students : student_row_count(s) = TopN

\* C2 as stated: class_recommendations never holds more than 2 rows.
C2_AtMostTwoClassRows ==
    BagCardinality(class_recommendations) <= ClassTopN

\* C3 as stated: after any sequence of full runs the per-student read path
\* returns the books of the most recent run's top 3 of the student, and no
\* book of an earlier run that has left the top 3.
C3_ReadPathReturnsCurrentTop3 ==
    run_completed
    => \A s \in Students :
           \E q \in get_student_by_id_book_recommendations(s) :
               Range(book_ids(q)) = Range(book_ids(matches[s]))

\* C4 as stated: after a full run get_class_recommendations returns the 2
\* books the run chose, in the order of the selection
\* (students_recommended_count descending, then average score descending).
C4_ClassReadPathInSelectionOrder ==
    (run_completed /\ top_2 # <<>>)
    => \E q \in get_class_recommendations : book_ids(q) = book_ids(top_2)

\* C5 as stated: the engine process and the API server process compute,
\* over the same tables, the same baseline known set of assigned-grade
\* words for every student.
C5_SameBaselineInEveryProcess ==
    runs > 0
    => \A s \in Students :
           baseline_words(hash_seed, s) \cap grade_words(s)
             = calculate_baseline_words_known(api_hash_seed, s, grade_words(s),
                   get_baseline_mastery_percent(
                       round_level(actual_reading_level(s))))

(***************************************************************************)
(* Claims about dismissal and the statistics of the class                  *)
(***************************************************************************)
\* the records of a word that have misuse examples and are not dismissed
open_misuse_count(word_id) ==
    Cardinality({s \in Students :
                    /\ student_vocabulary[<<s, word_id>>] # NoRecord
                    /\ student_vocabulary[<<s, word_id>>].misuse_examples # <<>>
                    /\ student_vocabulary[<<s, word_id>>].dismissed = FALSE})

\* C11: a dismissed misuse record is not counted in the commonly misused
\* words of get_class_stats: every listed word has a misuse record that is
\* not dismissed, and its misuse_count is the number of such records
C11_DismissedNotCounted ==
    response.kind = "class_stats" =>
        \A e \in response.commonly_misused_words :
            /\ open_misuse_count(e.word_id) > 0
            /\ e.misuse_count = open_misuse_count(e.word_id)

(***************************************************************************)
(* Claims about the weighted sum inside the band                           *)
(***************************************************************************)
\* the straight line through (x0, y0) and (x1, y1) at x, y in 1/10000, the
\* value in 1/SubOne
line_through(x, x0, y0, x1, y1) ==
    y0 * PUnit + ((x - x0) * (y1 - y0) * PUnit) \div (x1 - x0)

\* the known-score as section 4.3 words it, for known_percent in the band
stated_known_score(kp) ==
    IF P50 <= kp /\ kp <= P625 THEN line_through(kp, P50, 8500, P625, 10000)
    ELSE IF P625 < kp /\ kp <= P75 THEN line_through(kp, P625, 10000, P75, 8500)
    ELSE IF kp < P50 THEN line_through(kp, P40, 7000, P50, 8500)
    ELSE line_through(kp, P75, 10000, P85, 8000)

\* the new-words-score as section 4.3 words it
stated_new_words_score(n) ==
    IF n >= 40 THEN SubOne
    ELSE IF n >= 20 THEN line_through(n, 20, 8500, 40, 10000)
    ELSE IF n >= 10 THEN line_through(n, 10, 7000, 20, 8500)
    ELSE IF n >= 5 THEN line_through(n, 5, 4000, 10, 7000)
    ELSE line_through(n, 0, 0, 5, 4000)

\* max(0, 1 - |book_level - student_level| / 2), 0.5 without a level
stated_reading_level_score(book_level, student_level) ==
    IF book_level = NoLevel THEN SubOne \div 2
    ELSE Max(0, SubOne - (Abs(book_level - student_level) * SubOne) \div 20)

DismissAnswers == {"dismissed", "bad_request", "not_found"}

\* C13: a dismissal of an existing record with an accepted reason, dismissed
\* before or not, succeeds, sets dismissed with the reason and a timestamp
\* later than every stored one, and changes nothing else: the counts and
\* misuse examples of the record, every other record, and so every
\* student's known set, mastery percent and missing words.
C13_DismissalChangesOnlyDismissalFields ==
    [][response'.kind \in DismissAnswers =>
       \A student_id \in Students, word_id \in TextWords, reason \in ValidReasons :
          (/\ student_vocabulary[<<student_id, word_id>>] # NoRecord
           /\ dismiss_vocabulary(student_id, word_id, reason))
          => LET old == student_vocabulary[<<student_id, word_id>>]
                 new == student_vocabulary'[<<student_id, word_id>>]
             IN  /\ response'.kind = "dismissed"
                 /\ response'.success = TRUE
                 /\ response'.dismissed_at = new.dismissed_at
                 /\ new.dismissed = TRUE
                 /\ new.dismissed_reason = reason
                 /\ \A k \in Students \X Words :
                        student_vocabulary[k] # NoRecord
                            => new.dismissed_at > student_vocabulary[k].dismissed_at
                 /\ new.usage_count = old.usage_count
                 /\ new.correct_usage_count = old.correct_usage_count
                 /\ new.misuse_examples = old.misuse_examples
                 /\ \A k \in (Students \X Words) \ {<<student_id, word_id>>} :
                        student_vocabulary'[k] = student_vocabulary[k]
                 /\ \A s \in Students :
                        /\ service_known_words(api_hash_seed, s)'
                               = service_known_words(api_hash_seed, s)
                        /\ DOMAIN get_student_vocabulary_profile(hash_seed, s)'
                               = DOMAIN get_student_vocabulary_profile(hash_seed, s)
                        /\ calculate_vocab_mastery_percent(api_hash_seed, s)'
                               = calculate_vocab_mastery_percent(api_hash_seed, s)
                        /\ get_missing_words(api_hash_seed, s)'
                               = get_missing_words(api_hash_seed, s)
      ]_vars

\* a record has been dismissed a second time: both dismissals of the
\* behaviour went to the only dismissed record, and another record exists
C13_Witness ==
    /\ response.kind = "dismissed"
    /\ response.dismissed_at = 2
    /\ \E k \in Students \X Words :
           /\ student_vocabulary[k] # NoRecord
           /\ student_vocabulary[k].dismissed_at = 2
           /\ student_vocabulary[k].misuse_examples # <<>>
           /\ \E j \in (Students \X Words) \ {k} :
                  /\ student_vocabulary[j] # NoRecord
                  /\ student_vocabulary[j].dismissed = FALSE

\* C14: a dismissal for a pair without a usage record, or with a reason
\* other than addressed and ai_error, is answered with an error (invalid
\* reason, checked first, or not found) and leaves every record as it was;
\* so every dismissed record carries one of the two reasons.
C14_RejectedDismissalChangesNothing ==
    /\ [](\A k \in Students \X Words :
             (student_vocabulary[k] # NoRecord /\ student_vocabulary[k].dismissed)
                 => student_vocabulary[k].dismissed_reason \in ValidReasons)
    /\ [][response'.kind \in DismissAnswers =>
          \A student_id \in Students, word_id \in TextWords, reason \in Reasons :
             (/\ \/ reason \notin ValidReasons
                 \/ student_vocabulary[<<student_id, word_id>>] = NoRecord
              /\ dismiss_vocabulary(student_id, word_id, reason))
             => /\ response'.kind =
                       IF reason \notin ValidReasons THEN "bad_request" ELSE "not_found"
                /\ student_vocabulary' = student_vocabulary
                /\ clock' = clock
         ]_vars

\* a request was rejected for its reason after a dismissal had been stored,
\* and a record that is not dismissed exists
C14_Witness ==
    /\ response.kind = "bad_request"
    /\ \E k \in Students \X Words :
           /\ student_vocabulary[k] # NoRecord
           /\ student_vocabulary[k].dismissed
           /\ student_vocabulary[k].dismissed_reason \in ValidReasons
    /\ \E k \in Students \X Words :
           /\ student_vocabulary[k] # NoRecord
           /\ student_vocabulary[k].dismissed = FALSE

\* C15: every record has usage_count >= correct_usage_count >= 0, so the
\* incorrect_count of a misused word is never negative
C15_CountsOrdered ==
    /\ \A k \in Students \X Words :
           student_vocabulary[k] # NoRecord
               => /\ student_vocabulary[k].usage_count
                         >= student_vocabulary[k].correct_usage_count
                  /\ student_vocabulary[k].correct_usage_count >= 0
    /\ response.kind = "student"
           => \A e \in response.misused_words : e.incorrect_count >= 0

P90 == (PUnit * 90) \div 100

rows_of_run_written(student_id) ==
    \A i \in DOMAIN matches[student_id] :
        [student_id |-> student_id,
         book_id |-> matches[student_id][i].book_id,
         match_score |-> matches[student_id][i].match_score,
         known_words_percent |-> matches[student_id][i].known_words_percent,
         new_words_count |-> matches[student_id][i].new_words_count]
            \in DOMAIN student_recommendations

\* C16: when the class-wide aggregation reads the table (phase 3) and until
\* its result is stored (phase 4), phase 2 has finished for every student
\* of the run: no student is pending and every student with matches has
\* the rows of the run in the table or had the commit rolled back.
C16_AggregationAfterStorePhase ==
    pc \in {"phase3", "phase4"} =>
        /\ pending = {}
        /\ \A s \in Students :
               matches[s] # <<>> => (s \in store_errors \/ rows_of_run_written(s))

\* the aggregation of a second run has been made after one commit of the
\* run was rolled back and the rows of another student were written
C16_Witness ==
    /\ pc = "phase4"
    /\ runs = 2
    /\ \E s \in Students : s \in store_errors /\ ~rows_of_run_written(s)
    /\ \E s \in Students : s \notin store_errors /\ rows_of_run_written(s)

\* C17: when the commit for a student fails, the table is left as the last
\* successful commit left it (none of the student's inserts and updates of
\* the run, all rows of the students stored before), the student is done
\* and the loop of phase 2 goes on with the remaining students.
C17_FailedCommitLeavesTable ==
    [][\A s \in Students :
          (s \in store_errors' /\ s \notin store_errors)
          => /\ student_recommendations' = student_recommendations
             /\ pending' = pending \ {s}
             /\ pc' = "phase2"
             /\ matches' = matches
      ]_vars

\* phase 2 of a second run is over: the commit of one student failed, whose
\* rows are those of the first run and not those of this run, and another
\* student has the rows of this run
C17_Witness ==
    /\ pc = "phase3"
    /\ runs = 2
    /\ \E s \in Students :
           /\ s \in store_errors
           /\ student_row_count(s) = TopN
           /\ ~rows_of_run_written(s)
    /\ \E s \in Students : s \notin store_errors /\ rows_of_run_written(s)

\* C20: no two rows of student_recommendations have the same student_id
\* and book_id
C20_NoDuplicateStudentBook ==
    /\ \A r \in DOMAIN student_recommendations : student_recommendations[r] = 1
    /\ \A r1, r2 \in DOMAIN student_recommendations :
           (r1.student_id = r2.student_id /\ r1.book_id = r2.book_id) => r1 = r2

\* after a re-run a student has the rows of more than TopN books: rows were
\* updated, a row was added, and a row of the first run was left
C20_Witness ==
    /\ pc = "idle"
    /\ runs = 2
    /\ \E s \in Students :
           /\ student_row_count(s) > TopN
           /\ rows_of_run_written(s)

\* C18: a run on unchanged data with the baseline decisions of the first
\* run changes neither student_recommendations nor class_recommendations
\* (it inserts no row and rewrites the values that are there).
C18_RerunIsIdempotent ==
    [][(runs > 1 /\ pc # "idle")
          => /\ student_recommendations' = student_recommendations
             /\ class_recommendations' = class_recommendations
      ]_vars

(***************************************************************************)
(* Claims about the shape of the score in known_percent                    *)
(***************************************************************************)
\* C28: for fixed new_words_count and reading levels the score has a single
\* peak in known_percent at 0.625: from each grid point at or above 0.625
\* the next one does not score higher, and from each grid point at or
\* below 0.625 the one before does not score higher.
C28_SinglePeakAtOptimum ==
    (result # NoResult /\ 0 <= args.known_percent /\ args.known_percent <= PUnit)
    => /\ (P625 <= args.known_percent /\ args.known_percent < PUnit)
              => score_at(args.known_percent + 1) <= result
       /\ (0 < args.known_percent /\ args.known_percent <= P625)
              => score_at(args.known_percent - 1) <= result

(***************************************************************************)
(* Selection: phases 1 and 2 of one run over book tables in which books    *)
(* have their seeded vocabulary, a single word, or none.                   *)
(***************************************************************************)
SelectBookVocabularies ==
    [Books -> {{}, {1}}] \cup
    {[b \in Books |-> IF b \in E THEN {} ELSE seeded_book_vocabulary(b)] :
        E \in SUBSET Books}

InitSelect ==
    /\ args = NoArgs
    /\ result = NoResult
    /\ response = NoResponse
    /\ vocabulary_words = [w \in Words |-> seeded_grade_level(w)]
    /\ api_hash_seed = 0
    /\ student_vocabulary = [k \in Students \X Words |-> NoRecord]
    /\ book_vocabulary \in SelectBookVocabularies
    /\ student_recommendations = EmptyBag
    /\ class_recommendations = EmptyBag
    /\ pc = "idle"
    /\ hash_seed = 0
    /\ matches = [s \in Students |-> <<>>]
    /\ pending = {}
    /\ top_2 = <<>>
    /\ runs = 0
    /\ changes = 0
    /\ store_errors = {}
    /\ clock = 0
    /\ store_result = NoTotals
    /\ committed = NoTotals
    /\ sessions = NoSessions

\* the first run
run_recommendation_engine_once(seed) ==
    /\ runs = 0
    /\ run_recommendation_engine(seed)

NextSelect ==
    \/ \E seed \in HashSeeds : run_recommendation_engine_once(seed)
    \/ generate_student_recommendations
    \/ store_student_recommendations

SpecSelect == InitSelect /\ [][NextSelect]_vars

\* books with a non-empty vocabulary map
scoreable_books == {b \in Books : get_book_vocabulary(b) # {}}

\* the books of the student's matches of the run
selected_books(student_id) ==
    {matches[student_id][i].book_id : i \in DOMAIN matches[student_id]}

\* phase 1 of the run is over
matches_computed == pc = "phase2"

\* C22: a run selects min(3, number of scoreable books) distinct books for
\* each student, each with its score; every selected book scores at least
\* as high as every scoreable book not selected; a book with an empty
\* vocabulary map is neither selected nor stored.
C22_TopThreeOfScoreableBooks ==
    matches_computed =>
        \A s \in Students :
            /\ Len(matches[s]) = Min(TopN, Cardinality(scoreable_books))
            /\ Cardinality(selected_books(s)) = Len(matches[s])
            /\ selected_books(s) \subseteq scoreable_books
            /\ \A i \in DOMAIN matches[s] :
                   /\ matches[s][i] = match_entry(hash_seed, s, matches[s][i].book_id)
                   /\ \A b \in scoreable_books \ selected_books(s) :
                          matches[s][i].match_score
                              >= match_entry(hash_seed, s, b).match_score
            /\ \A r \in DOMAIN student_recommendations :
                   r.book_id \in scoreable_books

\* phase 2 of a run over a table in which only two books have vocabulary:
\* both are selected and stored for every student, the others are not
C22_Witness ==
    /\ matches_computed
    /\ pending = {}
    /\ Cardinality(scoreable_books) = 2
    /\ \A s \in Students :
           /\ Len(matches[s]) = 2
           /\ student_row_count(s) = 2

\* C23: the set of books selected for a student does not depend on the
\* order in which the books are listed: every listing of the same books
\* gives the set the run selected.
C23_TopThreeIndependentOfListing ==
    matches_computed =>
        \A s \in Students : \A all_books \in Orderings(Books) :
            LET top_3 == Prefix(match_student_to_books(hash_seed, s, all_books), TopN)
            IN  {top_3[i].book_id : i \in DOMAIN top_3} = selected_books(s)

(***************************************************************************)
(* Claims about the class-wide aggregation                                 *)
(***************************************************************************)
\* the students that have a row for the book
students_with_row(book_id) ==
    {r.student_id : r \in {x \in DOMAIN student_recommendations : x.book_id = book_id}}

\* the score of a student's row for the book
row_score(student_id, book_id) ==
    (CHOOSE r \in DOMAIN student_recommendations :
        r.student_id = student_id /\ r.book_id = book_id).match_score

\* the sum of the scores the students have for the book
RECURSIVE score_total(_, _)
score_total(students, book_id) ==
    IF students = {} THEN 0
    ELSE LET s == CHOOSE x \in students : TRUE
         IN  row_score(s, book_id) + score_total(students \ {s}, book_id)

\* (student count, average score) of book c is lexicographically greater
\* than that of book b
pair_greater(c, b) ==
    LET nc == Cardinality(students_with_row(c))
        nb == Cardinality(students_with_row(b))
    IN  \/ nc > nb
        \/ /\ nc = nb
           /\ score_total(students_with_row(c), c) * nb
                  > score_total(students_with_row(b), b) * nc

\* C24: after the class phase of a run every book it wrote has a row whose
\* students_recommended_count is the number of distinct students with a
\* row for the book and whose match_score is the average of their scores,
\* and no book left out has a greater (student count, average score) pair.
C24_ClassRowsAreTheAggregates ==
    (pc = "idle" /\ runs > 0) =>
        \A i \in DOMAIN top_2 :
            LET b == top_2[i].book_id
                students == students_with_row(b)
            IN  /\ \E row \in DOMAIN class_recommendations :
                       /\ row.book_id = b
                       /\ row.students_recommended_count = Cardinality(students)
                       /\ row.match_score.num * Cardinality(students)
                              = row.match_score.den * score_total(students, b)
                /\ \A c \in {r.book_id : r \in DOMAIN student_recommendations} :
                       (\A j \in DOMAIN top_2 : top_2[j].book_id # c)
                           => ~pair_greater(c, b)

\* a second run has written two class rows, one for a book that not every
\* student has a row for, and left a recommended book out
C24_Witness ==
    /\ pc = "idle"
    /\ runs = 2
    /\ Len(top_2) = ClassTopN
    /\ \E i \in DOMAIN top_2 :
           Cardinality(students_with_row(top_2[i].book_id)) < NumStudents
    /\ \E c \in {r.book_id : r \in DOMAIN student_recommendations} :
           \A j \in DOMAIN top_2 : top_2[j].book_id # c

(***************************************************************************)
(* The reading-level distribution of get_class_stats, over classes whose   *)
(* students have any of the levels of ClassLevels (tenths of a grade).     *)
(***************************************************************************)
ClassLevels == {48, 50, 55, 62, 65, 66, 70, 75, 79, 85, 90}

\* reading_level_key = str(int(student.actual_reading_level)): int()
\* truncates; levels are positive
reading_level_key(level) == level \div 10

\* reading_level_distribution[reading_level_key] += 1 over the students
reading_level_distribution(levels) ==
    [k \in {reading_level_key(levels[s]) : s \in DOMAIN levels} |->
        Cardinality({s \in DOMAIN levels : reading_level_key(levels[s]) = k})]

InitBucket ==
    /\ args \in [actual_reading_level : [Students -> ClassLevels]]
    /\ result = NoResult
    /\ response = NoResponse
    /\ vocabulary_words = [w \in Words |-> seeded_grade_level(w)]
    /\ api_hash_seed = 0
    /\ InitTables

\* the part of get_class_stats that fills reading_level_distribution, for
\* the class in args
get_class_stats_reading_levels ==
    /\ response = NoResponse
    /\ response' = [kind |-> "reading_levels",
                    total_students |-> Cardinality(Students),
                    reading_level_distribution |->
                        reading_level_distribution(args.actual_reading_level)]
    /\ UNCHANGED <<clock, sessions, store_result, committed, store_errors, args, result, vocabulary_words, student_vocabulary,
                   book_vocabulary, student_recommendations, class_recommendations, pc,
                   hash_seed, api_hash_seed, matches, pending, top_2, runs, changes>>

SpecBucket == InitBucket /\ [][get_class_stats_reading_levels]_vars

\* C25: every student is counted under the rounded integer of the reading
\* level, the integer the baseline lookup uses (int(round(level))), and the
\* counts sum to total_students.
C25_BucketsByRoundedLevel ==
    response.kind = "reading_levels" =>
        LET levels == args.actual_reading_level
            rounded == {round_level(levels[s]) : s \in Students}
            RECURSIVE bucket_total(_)
            bucket_total(distribution) ==
                IF DOMAIN distribution = {} THEN 0
                ELSE LET k == CHOOSE x \in DOMAIN distribution : TRUE
                     IN  distribution[k]
                         + bucket_total([j \in DOMAIN distribution \ {k} |->
                                            distribution[j]])
        IN  /\ DOMAIN response.reading_level_distribution = rounded
            /\ \A k \in rounded :
                   response.reading_level_distribution[k]
                       = Cardinality({s \in Students : round_level(levels[s]) = k})
            /\ bucket_total(response.reading_level_distribution)
                   = response.total_students

(***************************************************************************)
(* Class statistics against the per-student views                          *)
(***************************************************************************)
\* C26: the class statistic counts a word as missing for exactly the
\* students whose get_missing_words holds the word: with no more words than
\* the list keeps, every word is reported with the number of those students
\* (0 for a word the response does not list).
C26_ClassMissingIsStudentMissing ==
    (response.kind = "class_stats" /\ Cardinality(Words) <= TopWords) =>
        \A w \in Words :
            LET listed == {e \in response.top_missing_words : e.word_id = w}
                students_missing ==
                    IF listed = {} THEN 0
                    ELSE (CHOOSE e \in listed : TRUE).students_missing
            IN  students_missing
                    = Cardinality({s \in Students :
                                      w \in get_missing_words(api_hash_seed, s)})

\* C29: in a student response the mastered and the missing words partition
\* the vocabulary of the assigned grade.
C29_MasteredAndMissingPartitionGrade ==
    response.kind = "student" =>
        /\ response.vocab_mastery.words_mastered + Cardinality(response.missing_words)
               = response.vocab_mastery.total_grade_level_words
        /\ response.vocab_mastery.words_mastered
               <= response.vocab_mastery.total_grade_level_words

(***************************************************************************)
(* The batch summary of phase 2                                            *)
(***************************************************************************)
\* C27: the totals that store_student_recommendations returns and prints
\* are the numbers of rows the run inserted and updated durably, also when
\* the commit of a student was rolled back.  At phase3 the function has
\* returned its totals.
C27_TotalsAreDurableRows ==
    pc = "phase3" =>
        /\ store_result.total_inserted = committed.total_inserted
        /\ store_result.total_updated = committed.total_updated

(***************************************************************************)
(* Dismissals and later ingestion                                          *)
(***************************************************************************)
\* the record of k exists and is dismissed
is_dismissed(k) ==
    student_vocabulary[k] # NoRecord /\ student_vocabulary[k].dismissed = TRUE

stored_by(student_id) ==
    {p \in Processes :
        \/ sessions[p].pc \in {"phase3", "phase4", "done"}
        \/ /\ sessions[p].pc = "phase2"
           /\ sessions[p].matches[student_id] # <<>>
           /\ student_id \notin sessions[p].pending}

\* the row a session holds for one entry of top_3
staged_row(student_id, m) ==
    [student_id |-> student_id,
     book_id |-> m.book_id,
     match_score |-> m.match_score,
     known_words_percent |-> m.known_words_percent,
     new_words_count |-> m.new_words_count]

\* an iteration that never looks for an existing row
stage_always_insert(table, student_id, m, now) ==
    [kind |-> "insert", row |-> staged_row(student_id, m), looked |-> now]

\* one iteration over top_3: query(...).first() against the committed table;
\* a row found is changed in the session, without one a new row is added to
\* the session.  now is the set of processes whose commit for the student
\* came before the query.
stage(table, student_id, m, now) ==
    [kind |-> IF \E r \in DOMAIN table : /\ r.student_id = student_id
                                         /\ r.book_id = m.book_id
              THEN "update" ELSE "insert",
     row |-> staged_row(student_id, m),
     looked |-> now]

\* db.commit() of a session: INSERT for the rows added; UPDATE for a row
\* changed, which goes to the row that first() returned: one of the rows of
\* the key, any of them
RECURSIVE flush(_, _)
flush(table, staged) ==
    IF staged = <<>> THEN {table}
    ELSE LET op == Head(staged)
             existing == {r \in DOMAIN table : /\ r.student_id = op.row.student_id
                                                /\ r.book_id = op.row.book_id}
             next == IF op.kind = "update" /\ existing # {}
                     THEN {(table (-) Singleton(old)) (+) Singleton(op.row) :
                              old \in existing}
                     ELSE {table (+) Singleton(op.row)}
         IN  UNION {flush(t, Tail(staged)) : t \in next}

\* a process starts, with its own hash salt, and runs phase 1, which reads
\* tables that no engine process writes; the books are listed by id
process_start(p, seed) ==
    /\ sessions[p].pc = "idle"
    /\ LET all_books == [i \in 1..NumBooks |-> i]
           top == [s \in Students |->
                      Prefix(match_student_to_books(seed, s, all_books), TopN)]
       IN  sessions' = [sessions EXCEPT
               ![p].pc = "phase2",
               ![p].matches = top,
               ![p].pending = {s \in Students : top[s] # <<>>}]
    /\ UNCHANGED <<clock, store_result, committed, store_errors, args, result, response,
                   vocabulary_words, student_vocabulary, book_vocabulary,
                   student_recommendations, class_recommendations, pc, hash_seed,
                   api_hash_seed, matches, pending, top_2, runs, changes>>

\* phase 2 of process p, the query of one iteration over the top_3 of a
\* student; the loop takes the students in the order of matches.items(),
\* the order in which the query of phase 1 listed them, here by id
process_query(p) ==
    /\ sessions[p].pc = "phase2"
    /\ \E student_id \in sessions[p].pending :
           /\ sessions[p].student \in {NoStudent, student_id}
           /\ sessions[p].student = NoStudent => student_id = MinOf(sessions[p].pending)
           /\ Len(sessions[p].staged) < Len(sessions[p].matches[student_id])
           /\ sessions' = [sessions EXCEPT
                  ![p].student = student_id,
                  ![p].staged = Append(@,
                      stage(student_recommendations, student_id,
                            sessions[p].matches[student_id][Len(sessions[p].staged) + 1],
                            stored_by(student_id)))]
    /\ UNCHANGED <<clock, store_result, committed, store_errors, args, result, response,
                   vocabulary_words, student_vocabulary, book_vocabulary,
                   student_recommendations, class_recommendations, pc, hash_seed,
                   api_hash_seed, matches, pending, top_2, runs, changes>>

\* phase 2 of process p, db.commit() after the iterations of one student
process_commit(p) ==
    /\ sessions[p].pc = "phase2"
    /\ sessions[p].student # NoStudent
    /\ Len(sessions[p].staged) = Len(sessions[p].matches[sessions[p].student])
    /\ student_recommendations' \in flush(student_recommendations, sessions[p].staged)
    /\ sessions' = [sessions EXCEPT
           ![p].pending = @ \ {sessions[p].student},
           ![p].student = NoStudent,
           ![p].staged = <<>>,
           ![p].inserted = @ \cup
               {[student_id |-> sessions[p].staged[i].row.student_id,
                 book_id |-> sessions[p].staged[i].row.book_id,
                 looked |-> sessions[p].staged[i].looked] :
                    i \in {j \in DOMAIN sessions[p].staged :
                              sessions[p].staged[j].kind = "insert"}}]
    /\ UNCHANGED <<clock, store_result, committed, store_errors, args, result, response,
                   vocabulary_words, student_vocabulary, book_vocabulary,
                   class_recommendations, pc, hash_seed,
                   api_hash_seed, matches, pending, top_2, runs, changes>>

\* phase 2 of process p returns; matches is not read again
process_return(p) ==
    /\ sessions[p].pc = "phase2"
    /\ sessions[p].pending = {}
    /\ sessions' = [sessions EXCEPT ![p].pc = "phase3",
                                    ![p].matches = [s \in Students |-> <<>>]]
    /\ UNCHANGED <<clock, store_result, committed, store_errors, args, result, response,
                   vocabulary_words, student_vocabulary, book_vocabulary,
                   student_recommendations, class_recommendations, pc, hash_seed,
                   api_hash_seed, matches, pending, top_2, runs, changes>>

\* one iteration over top_2: query(...).first() by book_id against the
\* committed table
stage_class(table, book_info, now) ==
    [kind |-> IF \E r \in DOMAIN table : r.book_id = book_info.book_id
              THEN "update" ELSE "insert",
     row |-> [book_id |-> book_info.book_id,
              match_score |-> book_info.average_match_score,
              students_recommended_count |-> book_info.students_recommended_count],
     looked |-> now]

\* db.commit() of phase 4
RECURSIVE flush_class(_, _)
flush_class(table, staged) ==
    IF staged = <<>> THEN {table}
    ELSE LET op == Head(staged)
             existing == {r \in DOMAIN table : r.book_id = op.row.book_id}
             next == IF op.kind = "update" /\ existing # {}
                     THEN {(table (-) Singleton(old)) (+) Singleton(op.row) :
                              old \in existing}
                     ELSE {table (+) Singleton(op.row)}
         IN  UNION {flush_class(t, Tail(staged)) : t \in next}

\* phase 3 of process p, over the rows committed by then; without rows the
\* process exits
process_aggregate(p) ==
    /\ sessions[p].pc = "phase3"
    /\ IF student_recommendations = EmptyBag
       THEN sessions' = [sessions EXCEPT ![p].pc = "done"]
       ELSE \E order \in ScanOrders({r.book_id : r \in DOMAIN student_recommendations}) :
                sessions' = [sessions EXCEPT
                    ![p].pc = "phase4",
                    ![p].top_2 = Prefix(sort_aggregates(
                        [i \in DOMAIN order |->
                            book_aggregate(student_recommendations, order[i])]),
                        ClassTopN)]
    /\ UNCHANGED <<clock, store_result, committed, store_errors, args, result, response,
                   vocabulary_words, student_vocabulary, book_vocabulary,
                   student_recommendations, class_recommendations, pc, hash_seed,
                   api_hash_seed, matches, pending, top_2, runs, changes>>

\* phase 4 of process p, the query of one iteration over top_2; the
\* processes that are done have committed their class rows
process_class_query(p) ==
    /\ sessions[p].pc = "phase4"
    /\ Len(sessions[p].class_staged) < Len(sessions[p].top_2)
    /\ sessions' = [sessions EXCEPT
           ![p].class_staged = Append(@,
               stage_class(class_recommendations,
                           sessions[p].top_2[Len(sessions[p].class_staged) + 1],
                           {q \in Processes : sessions[q].pc = "done"}))]
    /\ UNCHANGED <<clock, store_result, committed, store_errors, args, result, response,
                   vocabulary_words, student_vocabulary, book_vocabulary,
                   student_recommendations, class_recommendations, pc, hash_seed,
                   api_hash_seed, matches, pending, top_2, runs, changes>>

\* phase 4 of process p, db.commit(), and the end of the process
process_class_commit(p) ==
    /\ sessions[p].pc = "phase4"
    /\ Len(sessions[p].class_staged) = Len(sessions[p].top_2)
    /\ class_recommendations' \in flush_class(class_recommendations,
                                               sessions[p].class_staged)
    /\ sessions' = [sessions EXCEPT
           ![p].pc = "done",
           ![p].top_2 = <<>>,
           ![p].class_staged = <<>>,
           ![p].class_inserted =
               {[book_id |-> sessions[p].class_staged[i].row.book_id,
                 looked |-> sessions[p].class_staged[i].looked] :
                    i \in {j \in DOMAIN sessions[p].class_staged :
                              sessions[p].class_staged[j].kind = "insert"}}]
    /\ UNCHANGED <<clock, store_result, committed, store_errors, args, result, response,
                   vocabulary_words, student_vocabulary, book_vocabulary,
                   student_recommendations, pc, hash_seed,
                   api_hash_seed, matches, pending, top_2, runs, changes>>

NextOverlap ==
    \/ \E p \in Processes, seed \in HashSeeds : process_start(p, seed)
    \/ \E p \in Processes : process_query(p)
    \/ \E p \in Processes : process_commit(p)
    \/ \E p \in Processes : process_return(p)
    \/ \E p \in Processes : process_aggregate(p)
    \/ \E p \in Processes : process_class_query(p)
    \/ \E p \in Processes : process_class_commit(p)

SpecOverlap == InitFault /\ [][NextOverlap]_vars

\* the rows of student_recommendations for one (student_id, book_id)
rows_of_key(student_id, book_id) ==
    LET rows == {r \in DOMAIN student_recommendations :
                    r.student_id = student_id /\ r.book_id = book_id}
    IN  count_rows(student_recommendations, rows)

\* the processes whose commit has inserted a row for (student_id, book_id)
inserters(student_id, book_id) ==
    {p \in Processes : \E i \in sessions[p].inserted :
                          i.student_id = student_id /\ i.book_id = book_id}

\* the rows of class_recommendations for one book
class_rows_of_key(book_id) ==
    LET RECURSIVE copies(_)
        copies(rows) == IF rows = {} THEN 0
                        ELSE LET r == CHOOSE x \in rows : TRUE
                             IN  class_recommendations[r] + copies(rows \ {r})
    IN  copies({r \in DOMAIN class_recommendations : r.book_id = book_id})

\* the processes whose commit has inserted a class row for the book
class_inserters(book_id) ==
    {p \in Processes : \E i \in sessions[p].class_inserted : i.book_id = book_id}

\* C21: with two runs side by side a (student, book) and a class book can
\* get two rows, and only by the race: the rows of a key are the rows its
\* inserters added, one each, and when two processes inserted the same key,
\* each of them had looked for the row before the other one committed its
\* own.
C21_DuplicatesOnlyByOverlap ==
    /\ \A student_id \in Students, book_id \in Books :
           /\ rows_of_key(student_id, book_id)
                  = Cardinality(inserters(student_id, book_id))
           /\ \A p, q \in Processes :
                  p # q =>
                      \A i \in sessions[p].inserted, j \in sessions[q].inserted :
                          (/\ i.student_id = student_id /\ j.student_id = student_id
                           /\ i.book_id = book_id /\ j.book_id = book_id)
                              => q \notin i.looked /\ p \notin j.looked
    /\ \A book_id \in Books :
           /\ class_rows_of_key(book_id) = Cardinality(class_inserters(book_id))
           /\ \A p, q \in Processes :
                  p # q =>
                      \A i \in sessions[p].class_inserted,
                         j \in sessions[q].class_inserted :
                          (i.book_id = book_id /\ j.book_id = book_id)
                              => q \notin i.looked /\ p \notin j.looked

\* both processes have ended; a (student, book) has two rows, one of each
\* process, and so has a class book
C21_Witness ==
    /\ \A p \in Processes : sessions[p].pc = "done"
    /\ \E student_id \in Students, book_id \in Books :
           /\ rows_of_key(student_id, book_id) = 2
           /\ inserters(student_id, book_id) = Processes
    /\ \E book_id \in Books :
           /\ class_rows_of_key(book_id) = 2
           /\ class_inserters(book_id) = Processes

====
